---- MODULE Spec2Model ----
(***************************************************************************)
(* Sonic-AI: the audio artifact pipeline.                                  *)
(*                                                                         *)
(*  - App (src/App.tsx): the form state, handleGenerateAudio and the       *)
(*    history ("Vault") of GeneratedAudio records, newest first.           *)
(*  - AudioCard (src/components/AudioCard.tsx): one card per artifact,     *)
(*    with its isPlaying flag, its sourceRef and handleTogglePlayback.     *)
(*  - audioUtils (src/unnamed/part_004): the shared AudioContext,          *)
(*    getAudioContext and playAudioBuffer.                                 *)
(*                                                                         *)
(* One step of the model is one task of the browser's event loop together  *)
(* with the microtasks it triggers: a click handler runs until its first   *)
(* await on a promise that only a later task settles (the synthesis        *)
(* request, AudioContext.resume()).  React state is read as of the last    *)
(* render, which for these handlers is the value after the previous task.  *)
(***************************************************************************)
EXTENDS Integers, Sequences, FiniteSets, TLC

\* ---------------------------------------------------------------- bounds
MaxArtifacts == 2     \* artifacts created in one run (ids 1..MaxArtifacts)
MaxInFlight == 2      \* synthesis requests awaiting their response
MaxSources == 3       \* AudioBufferSourceNodes alive at one time
MaxTime == 2          \* readings of Date.now()
MaxRequests == 3      \* synthesis requests issued in one run
MaxText == 4          \* characters of a base64 text given to the codec
MaxBytes == 3         \* bytes of a buffer given to the codec

\* ------------------------------------------------------------- constants
DefaultSampleRate == 24000
SampleRates == {DefaultSampleRate, 2 * DefaultSampleRate}

Null == 0                                  \* sourceRef.current === null
NoError == "null"                          \* error === null
NoCtx == [id |-> 0, sampleRate |-> 0]      \* sharedAudioCtx === null

ArtifactIds == 1..MaxArtifacts
SourceIds == 1..MaxSources

Texts == {"", "hello"}
StudioModes == {"single", "conversation"}
Rates == {1, 2}
Languages == {"English", "Hindi"}
\* what the synthesizer returns as inlineData.data, as a sequence of
\* characters: a well formed payload (the bytes 0, 0) or one that atob rejects
Payloads == {<<"A", "A", "A", "=">>, <<"A", "*", "A", "=">>}

VARIABLES
  form,          \* App: singleText, studioMode, params (the values of one render)
  history,       \* App: useState<GeneratedAudio[]>
  isLoading,     \* App: useState(false)
  error,         \* App: useState<string | null>
  requests,      \* in-flight handleGenerateAudio invocations, each with its closure
  nextId,        \* next value of crypto.randomUUID()
  nextRid,       \* issue number of the next synthesis request
  origin,        \* per artifact id, the issue number of the request that made it
  now,           \* Date.now()
  deleted,       \* the ids that onDelete has been called with
  isPlaying,     \* AudioCard: useState(false), per card
  sourceRef,     \* AudioCard: useRef(null).current, per card
  sources,       \* the AudioBufferSourceNodes, per node id (NoSource: no such node)
  resumeQueue,   \* playAudioBuffer invocations awaiting ctx.resume(), in call order
  sharedAudioCtx,\* audioUtils: the module-level context, Null or [id, sampleRate]
  ctxState,      \* AudioContext.state of the shared context
  ctxCreated,    \* number of AudioContext objects constructed
  uncaught,      \* handlers out of which an exception escaped
  input,         \* the arguments the codec functions are applied to
  output         \* what the last codec call or export returned, threw or saved

appVars == <<form, history, isLoading, error, requests, nextId, nextRid, origin, now, deleted>>
cardVars == <<isPlaying, sourceRef, sources, resumeQueue>>
devVars == <<sharedAudioCtx, ctxState, ctxCreated>>
codecVars == <<input, output>>
vars == <<appVars, cardVars, devVars, uncaught, codecVars>>

\* ------------------------------------------------------------ the Vault
Ids(h) == {h[i].id : i \in 1..Len(h)}

Mounted(c) == c \in Ids(history)

\* `${singleVoice} (${singleMood})` or `${speakers.length} Speakers`, the voice,
\* the mood and the roster being left at their initial values
VoiceNameOf(f) ==
  IF f.studioMode = "single"
  THEN <<"Z", "e", "p", "h", "y", "r", " ", "(", "N", "a", "t", "u", "r", "a", "l", ")">>
  ELSE <<"2", " ", "S", "p", "e", "a", "k", "e", "r", "s">>

\* singleText.slice(0, 100) + '...'
DisplayText(t) == <<t, "...">>

NewAudio(id, time, f, base64) ==
  [id |-> id,
   text |-> DisplayText(f.singleText),
   timestamp |-> time,
   voiceName |-> VoiceNameOf(f),
   type |-> IF f.studioMode = "single" THEN "single" ELSE "multi",
   audioData |-> base64,
   params |-> f.params,
   language |-> f.selectedLanguage]

\* prev => [newAudio, ...prev]
AppendLast(prev, newAudio) == prev \o <<newAudio>>
Prepend(prev, newAudio) == <<newAudio>> \o prev

\* the function given to setHistory is applied to the latest history
OnlyNew(prev, newAudio) == <<newAudio>>
InsertUpdate(prev, newAudio) == Prepend(prev, newAudio)

\* h => h.filter(x => x.id !== id)
RemoveSplice(h, id) ==
  IF \E i \in 1..Len(h) : h[i].id = id
  THEN SelectSeq(h, LAMBDA x : x.id # id)
  ELSE SubSeq(h, 1, Len(h) - 1)
Remove(h, id) == SelectSeq(h, LAMBDA x : x.id # id)

\* onDelete's update of the history
RemoveOthers(h, id) == SelectSeq(h, LAMBDA x : x.id = id)
DeleteUpdate(h, id) == Remove(h, id)

\* ------------------------------------------------------------- App: form
SetSingleText(t) ==
  /\ t # form.singleText
  /\ form' = [form EXCEPT !.singleText = t]
  /\ UNCHANGED <<history, isLoading, error, requests, nextId, nextRid, origin, now, deleted>>
  /\ UNCHANGED <<cardVars, devVars, uncaught, codecVars>>

SetStudioMode(m) ==
  /\ m # form.studioMode
  /\ form' = [form EXCEPT !.studioMode = m]
  /\ UNCHANGED <<history, isLoading, error, requests, nextId, nextRid, origin, now, deleted>>
  /\ UNCHANGED <<cardVars, devVars, uncaught, codecVars>>

\* setParams(p => ({ ...p, [field]: val })), for the rate knob
updateParamInPlace(val) ==
  /\ val # form.params.rate
  /\ form' = [form EXCEPT !.params = [form.params EXCEPT !.rate = val]]
  /\ history' = [k \in 1..Len(history) |->
                   [history[k] EXCEPT !.params = [history[k].params EXCEPT !.rate = val]]]
  /\ UNCHANGED <<isLoading, error, requests, nextId, nextRid, origin, now, deleted>>
  /\ UNCHANGED <<cardVars, devVars, uncaught, codecVars>>
updateParam(val) ==
  /\ val # form.params.rate
  /\ form' = [form EXCEPT !.params = [form.params EXCEPT !.rate = val]]
  /\ UNCHANGED <<history, isLoading, error, requests, nextId, nextRid, origin, now, deleted>>
  /\ UNCHANGED <<cardVars, devVars, uncaught, codecVars>>

\* onClick={() => setSelectedLanguage(lang)}
SetSelectedLanguage(lang) ==
  /\ lang # form.selectedLanguage
  /\ form' = [form EXCEPT !.selectedLanguage = lang]
  /\ UNCHANGED <<history, isLoading, error, requests, nextId, nextRid, origin, now, deleted>>
  /\ UNCHANGED <<cardVars, devVars, uncaught, codecVars>>

Tick ==
  /\ now < MaxTime
  /\ now' = now + 1
  /\ UNCHANGED <<form, history, isLoading, error, requests, nextId, nextRid, origin, deleted>>
  /\ UNCHANGED <<cardVars, devVars, uncaught, codecVars>>

\* ------------------------------------------- App: handleGenerateAudio
\* singleText.trim() is empty
IsBlank(t) == t = ""

\* The handler up to its first await: with an empty text it returns at once
\* (the finally block clears isLoading in the same task); otherwise the
\* request is sent with the values of the current render.
handleGenerateAudioNoFinally ==
  IF IsBlank(form.singleText)
  THEN /\ isLoading' = TRUE
       /\ error' = NoError
       /\ UNCHANGED <<form, history, requests, nextId, nextRid, origin, now, deleted>>
       /\ UNCHANGED <<cardVars, devVars, uncaught, codecVars>>
  ELSE /\ Len(requests) < MaxInFlight
       /\ nextRid <= MaxRequests
       /\ nextId + Len(requests) <= MaxArtifacts
       /\ isLoading' = TRUE
       /\ error' = NoError
       /\ requests' = Append(requests, [rid |-> nextRid, form |-> form])
       /\ nextRid' = nextRid + 1
       /\ UNCHANGED <<form, history, nextId, origin, now, deleted>>
       /\ UNCHANGED <<cardVars, devVars, uncaught, codecVars>>
handleGenerateAudio ==
  IF IsBlank(form.singleText)
  THEN /\ isLoading' = FALSE
       /\ error' = NoError
       /\ UNCHANGED <<form, history, requests, nextId, nextRid, origin, now, deleted>>
       /\ UNCHANGED <<cardVars, devVars, uncaught, codecVars>>
  ELSE /\ Len(requests) < MaxInFlight
       /\ nextRid <= MaxRequests
       /\ nextId + Len(requests) <= MaxArtifacts
       /\ isLoading' = TRUE
       /\ error' = NoError
       /\ requests' = Append(requests, [rid |-> nextRid, form |-> form])
       /\ nextRid' = nextRid + 1
       /\ UNCHANGED <<form, history, nextId, origin, now, deleted>>
       /\ UNCHANGED <<cardVars, devVars, uncaught, codecVars>>

DropAt(q, i) == SubSeq(q, 1, i - 1) \o SubSeq(q, i + 1, Len(q))

\* The values the handler works with after its await: those of the render in
\* which it was invoked, held by its closure.
LatestRender(r) == form
Closure(r) == r.form

\* generateSingleSpeakerAudio / generateMultiSpeakerAudio:
\* if (!data) throw new Error(...); return data
NoData == <<>>
Responses == Payloads \cup {NoData}
AnyData(data) == TRUE
HasData(data) == data # NoData

\* The synthesis call of request i returned base64: lines 107-118, then finally.
SynthesisReturnsSharedPayload(i, base64) ==
  /\ i \in 1..Len(requests)
  /\ HasData(base64)
  /\ LET r == requests[i]
         newAudio == NewAudio(nextId, now, Closure(r), base64)
         h == InsertUpdate(history, newAudio)
     IN /\ history' = [k \in 1..Len(h) |-> [h[k] EXCEPT !.audioData = base64]]
        /\ origin' = [origin EXCEPT ![nextId] = r.rid]
  /\ nextId' = nextId + 1
  /\ requests' = DropAt(requests, i)
  /\ isLoading' = FALSE
  /\ UNCHANGED <<form, error, nextRid, now, deleted>>
  /\ UNCHANGED <<cardVars, devVars, uncaught, codecVars>>
SynthesisReturns(i, base64) ==
  /\ i \in 1..Len(requests)
  /\ HasData(base64)
  /\ LET r == requests[i]
         newAudio == NewAudio(nextId, now, Closure(r), base64)
     IN /\ history' = InsertUpdate(history, newAudio)
        /\ origin' = [origin EXCEPT ![nextId] = r.rid]
  /\ nextId' = nextId + 1
  /\ requests' = DropAt(requests, i)
  /\ isLoading' = FALSE
  /\ UNCHANGED <<form, error, nextRid, now, deleted>>
  /\ UNCHANGED <<cardVars, devVars, uncaught, codecVars>>

\* The synthesis call of request i threw (no audio data, transport error):
\* the catch block sets the message, then finally.
SynthesisFailsButStores(i) ==
  /\ i \in 1..Len(requests)
  /\ history' = InsertUpdate(history, NewAudio(nextId, now, Closure(requests[i]), NoData))
  /\ origin' = [origin EXCEPT ![nextId] = requests[i].rid]
  /\ nextId' = nextId + 1
  /\ requests' = DropAt(requests, i)
  /\ error' = "Audio synthesis failed."
  /\ isLoading' = FALSE
  /\ UNCHANGED <<form, nextRid, now, deleted>>
  /\ UNCHANGED <<cardVars, devVars, uncaught, codecVars>>
SynthesisFails(i) ==
  /\ i \in 1..Len(requests)
  /\ requests' = DropAt(requests, i)
  /\ error' = "Audio synthesis failed."
  /\ isLoading' = FALSE
  /\ UNCHANGED <<form, history, nextId, nextRid, origin, now, deleted>>
  /\ UNCHANGED <<cardVars, devVars, uncaught, codecVars>>

\* --------------------------------------------------- App: onDelete
Artifact(c) == CHOOSE a \in {history[i] : i \in 1..Len(history)} : a.id = c

\* ------------------------------------- the platform: AudioBufferSourceNode
NoSource == [card |-> 0, status |-> "none", endedQueued |-> FALSE, stopCalls |-> 0]

\* A node exists from its creation until its ended event has been dispatched;
\* after that nothing refers to it and its id stands for a new node.
Live(srcs) == {s \in SourceIds : srcs[s] # NoSource}
FreshSource(srcs) == CHOOSE s \in SourceIds \ Live(srcs) : \A t \in SourceIds \ Live(srcs) : s <= t

\* ctx.createBufferSource(); source.start(): a new node, playing the whole
\* buffer of card c
StartSource(srcs, c) ==
  [srcs EXCEPT ![FreshSource(srcs)] =
     [card |-> c, status |-> "playing", endedQueued |-> FALSE, stopCalls |-> 0]]

\* source.stop().  On a playing node it halts output and queues the node's
\* ended event.  On a node that has already stopped or ended it does nothing;
\* engines differ on whether that call throws InvalidStateError (throws).
StopEverything(srcs, s, throws) ==
  [sources |-> [t \in SourceIds |->
                  IF srcs[t].status = "playing"
                  THEN [srcs[t] EXCEPT !.status = "stopped", !.endedQueued = TRUE,
                                       !.stopCalls = @ + 1]
                  ELSE srcs[t]],
   thrown |-> FALSE]
SourceStop(srcs, s, throws) ==
  IF srcs[s].status = "playing"
  THEN [sources |-> [srcs EXCEPT ![s].status = "stopped",
                                 ![s].endedQueued = TRUE,
                                 ![s].stopCalls = @ + 1],
        thrown |-> FALSE]
  ELSE [sources |-> [srcs EXCEPT ![s].stopCalls = @ + 1],
        thrown |-> throws]

\* try { sourceRef.current.stop(); } catch(e) {}
StopUnguarded(srcs, s, throws) == SourceStop(srcs, s, throws)
TryStop(srcs, s, throws) ==
  [sources |-> SourceStop(srcs, s, throws).sources, thrown |-> FALSE]

\* ------------------------------------------------ audioUtils: the device
\* getAudioContext(sampleRate): [shared, created] after the call
AlwaysNewContext(shared, created, sampleRate) ==
  [shared |-> [id |-> created + 1, sampleRate |-> sampleRate], created |-> created + 1]
getAudioContext(shared, created, sampleRate) ==
  IF shared = NoCtx
  THEN [shared |-> [id |-> created + 1, sampleRate |-> sampleRate], created |-> created + 1]
  ELSE [shared |-> shared, created |-> created]

\* playAudioBuffer, line 42: ctx.state === 'suspended'
NeverAwaitsResume(state) == FALSE
AwaitsResume(state) == state = "suspended"

\* ------------------------------------------------- audioUtils: the codec
\* Strings are sequences of one-character strings, byte buffers sequences of
\* numbers in 0..255.
B64Alphabet ==
  <<"A", "B", "C", "D", "E", "F", "G", "H", "I", "J", "K", "L", "M",
    "N", "O", "P", "Q", "R", "S", "T", "U", "V", "W", "X", "Y", "Z",
    "a", "b", "c", "d", "e", "f", "g", "h", "i", "j", "k", "l", "m",
    "n", "o", "p", "q", "r", "s", "t", "u", "v", "w", "x", "y", "z",
    "0", "1", "2", "3", "4", "5", "6", "7", "8", "9", "+", "/">>

IsB64(ch) == \E i \in 1..Len(B64Alphabet) : B64Alphabet[i] = ch
B64Value(ch) == (CHOOSE i \in 1..Len(B64Alphabet) : B64Alphabet[i] = ch) - 1

\* the characters atob removes before decoding
AsciiWhitespace == {" ", "\t", "\n", "\r", "\f"}

\* atob, step 2: with a length divisible by 4, one or two trailing "=" go
StripPadding(t) ==
  IF Len(t) % 4 = 0 /\ Len(t) >= 2 /\ t[Len(t)] = "=" /\ t[Len(t) - 1] = "="
  THEN SubSeq(t, 1, Len(t) - 2)
  ELSE IF Len(t) % 4 = 0 /\ Len(t) >= 1 /\ t[Len(t)] = "="
       THEN SubSeq(t, 1, Len(t) - 1)
       ELSE t

\* atob, step 5: 4 characters give 3 bytes; 2 or 3 left over characters give
\* 1 or 2 bytes, the remaining bits being dropped
RECURSIVE DecodeGroups(_)
DecodeGroups(t) ==
  IF Len(t) >= 4
  THEN LET n == B64Value(t[1]) * 262144 + B64Value(t[2]) * 4096
                + B64Value(t[3]) * 64 + B64Value(t[4])
       IN <<n \div 65536, (n \div 256) % 256, n % 256>> \o DecodeGroups(SubSeq(t, 5, Len(t)))
  ELSE IF Len(t) = 3
       THEN LET n == B64Value(t[1]) * 4096 + B64Value(t[2]) * 64 + B64Value(t[3])
            IN <<n \div 1024, (n \div 4) % 256>>
       ELSE IF Len(t) = 2
            THEN <<(B64Value(t[1]) * 64 + B64Value(t[2])) \div 16>>
            ELSE <<>>

\* window.atob (the forgiving-base64 decode of the HTML standard): the char
\* codes of the binary string, or a thrown InvalidCharacterError
atob(base64) ==
  LET t == StripPadding(SelectSeq(base64, LAMBDA ch : ch \notin AsciiWhitespace))
  IN IF Len(t) % 4 = 1 \/ \E i \in 1..Len(t) : ~IsB64(t[i])
     THEN [ok |-> FALSE, codes |-> <<>>]
     ELSE [ok |-> TRUE, codes |-> DecodeGroups(t)]

\* decodeBase64: bytes[i] = binaryString.charCodeAt(i) for i < len
decodeBase64Short(base64) ==
  LET bin == atob(base64)
  IN IF ~bin.ok
     THEN [ok |-> FALSE, bytes |-> <<>>]
     ELSE [ok |-> TRUE,
           bytes |-> [i \in 1..Len(bin.codes) |->
                        IF i < Len(bin.codes) THEN bin.codes[i] % 256 ELSE 0]]
decodeBase64(base64) ==
  LET bin == atob(base64)
  IN IF ~bin.ok
     THEN [ok |-> FALSE, bytes |-> <<>>]
     ELSE [ok |-> TRUE, bytes |-> [i \in 1..Len(bin.codes) |-> bin.codes[i] % 256]]

\* channelData[i] = dataInt16[i] / 32768.0: a sample is kept as its numerator
SampleScale == 32768

\* element i of new Int16Array(data.buffer, ...): two bytes, low byte first,
\* read as a signed 16-bit number
Int16At(data, i) ==
  LET u == data[2 * i - 1] + 256 * data[2 * i]
  IN IF u >= 32768 THEN u - 65536 ELSE u

\* decodeAudioData(data, ctx) with one channel.  The length given to
\* Int16Array, data.byteLength / 2, is cut to a whole number; createBuffer
\* throws NotSupportedError for a frame count of 0.
decodeAudioData(data) ==
  LET frameCount == Len(data) \div 2
  IN IF frameCount = 0
     THEN [ok |-> FALSE, samples |-> <<>>]
     ELSE [ok |-> TRUE, samples |-> [i \in 1..frameCount |-> Int16At(data, i)]]

\* DataView.setUint32 / setUint16 with littleEndian true or false
Uint32LE(v) == <<v % 256, (v \div 256) % 256, (v \div 65536) % 256, (v \div 16777216) % 256>>
Uint32BE(v) == <<(v \div 16777216) % 256, (v \div 65536) % 256, (v \div 256) % 256, v % 256>>
Uint16LE(v) == <<v % 256, (v \div 256) % 256>>

\* pcmToWav, lines 56-84: the 44 header bytes for dataLength bytes of PCM
WavHeaderBigEndianSize(dataLength, sampleRate) ==
  Uint32BE(1380533830) \o Uint32BE(36 + dataLength) \o Uint32BE(1463899717)
    \o Uint32BE(1718449184) \o Uint32LE(16) \o Uint16LE(1) \o Uint16LE(1)
    \o Uint32LE(sampleRate) \o Uint32LE((sampleRate * 1 * 16) \div 8)
    \o Uint16LE((1 * 16) \div 8) \o Uint16LE(16)
    \o Uint32BE(1684108385) \o Uint32LE(dataLength)
WavHeader(dataLength, sampleRate) ==
  Uint32BE(1380533830) \o Uint32LE(36 + dataLength) \o Uint32BE(1463899717)
    \o Uint32BE(1718449184) \o Uint32LE(16) \o Uint16LE(1) \o Uint16LE(1)
    \o Uint32LE(sampleRate) \o Uint32LE((sampleRate * 1 * 16) \div 8)
    \o Uint16LE((1 * 16) \div 8) \o Uint16LE(16)
    \o Uint32BE(1684108385) \o Uint32LE(dataLength)

\* pcmToWav: new Blob([header, pcmData])
pcmToWavSwapped(pcmData, sampleRate) ==
  WavHeader(Len(pcmData), sampleRate)
    \o [i \in 1..Len(pcmData) |->
          IF i % 2 = 1 /\ i < Len(pcmData) THEN pcmData[i + 1]
          ELSE IF i % 2 = 0 THEN pcmData[i - 1] ELSE pcmData[i]]
pcmToWav(pcmData, sampleRate) == WavHeader(Len(pcmData), sampleRate) \o pcmData

\* lines 40-41 of handleTogglePlayback: decodeBase64 or decodeAudioData throws
DecodeFails(base64) ==
  \/ ~decodeBase64(base64).ok
  \/ ~decodeAudioData(decodeBase64(base64).bytes).ok

\* !audio.audioData is false
AnyPayload(audio) == TRUE
HasPayload(audio) == audio.audioData # <<>>

\* ------------------------------------------------ AudioCard: handleDownload
\* String.prototype.toLowerCase, on one character
ToLowerCase(ch) ==
  IF \E i \in 1..26 : B64Alphabet[i] = ch
  THEN B64Alphabet[(CHOOSE i \in 1..26 : B64Alphabet[i] = ch) + 26]
  ELSE ch

\* .replace(/\s+/g, '_'): every run of whitespace becomes one underscore
RECURSIVE ReplaceWhitespace(_)
ReplaceWhitespace(t) ==
  IF t = <<>> THEN <<>>
  ELSE IF Head(t) \in AsciiWhitespace
       THEN IF Len(t) >= 2 /\ t[2] \in AsciiWhitespace
            THEN ReplaceWhitespace(Tail(t))
            ELSE <<"_">> \o ReplaceWhitespace(Tail(t))
       ELSE <<Head(t)>> \o ReplaceWhitespace(Tail(t))

\* `sonic_ai_${voiceName.replace(/[()]/g, '').replace(/\s+/g, '_')
\*    .toLowerCase()}_${Date.now()}.wav`
FileName(voiceName, time) ==
  LET bare == SelectSeq(voiceName, LAMBDA ch : ch \notin {"(", ")"})
      label == ReplaceWhitespace(bare)
  IN [prefix |-> "sonic_ai",
      label |-> [i \in 1..Len(label) |-> ToLowerCase(label[i])],
      millis |-> time,
      ext |-> ".wav"]

NoName == [prefix |-> "", label |-> <<>>, millis |-> 0, ext |-> ""]
NoOutput == [op |-> "none", result |-> "none", bytes |-> <<>>, samples |-> <<>>, name |-> NoName]
NoInput == [text |-> <<>>, bytes |-> <<>>, rate |-> DefaultSampleRate]

\* One click on the download button of the card of artifact c.  output
\* records how the handler ended and the file handed to the browser.
handleDownloadStopsPlayback(c) ==
  /\ Mounted(c)
  /\ output' = [NoOutput EXCEPT !.op = "handleDownload", !.result = "returned"]
  /\ isPlaying' = [isPlaying EXCEPT ![c] = FALSE]
  /\ sourceRef' = [sourceRef EXCEPT ![c] = Null]
  /\ UNCHANGED <<input, appVars, sources, resumeQueue, devVars, uncaught>>
handleDownload(c) ==
  /\ Mounted(c)
  /\ LET audio == Artifact(c)
         d == decodeBase64(audio.audioData)
     IN IF ~HasPayload(audio)
        THEN /\ output' = [NoOutput EXCEPT !.op = "handleDownload", !.result = "returned"]
             /\ UNCHANGED uncaught
        ELSE IF ~d.ok
             THEN \* decodeBase64 throws and nothing catches it
                  /\ output' = [NoOutput EXCEPT !.op = "handleDownload", !.result = "threw"]
                  /\ uncaught' = uncaught \cup {"handleDownload"}
             ELSE /\ output' = [NoOutput EXCEPT !.op = "handleDownload",
                                                !.result = "saved",
                                                !.bytes = pcmToWav(d.bytes, 24000),
                                                !.name = FileName(audio.voiceName, now)]
                  /\ UNCHANGED uncaught
  /\ UNCHANGED <<input, appVars, cardVars, devVars>>

\* ------------------------------------------ the codec functions, applied
decodeBase64Call ==
  /\ LET d == decodeBase64(input.text)
     IN output' = [NoOutput EXCEPT !.op = "decodeBase64",
                                   !.result = IF d.ok THEN "returned" ELSE "threw",
                                   !.bytes = d.bytes]
  /\ UNCHANGED <<input, appVars, cardVars, devVars, uncaught>>

decodeAudioDataCall ==
  /\ LET d == decodeAudioData(input.bytes)
     IN output' = [NoOutput EXCEPT !.op = "decodeAudioData",
                                   !.result = IF d.ok THEN "returned" ELSE "threw",
                                   !.samples = d.samples]
  /\ UNCHANGED <<input, appVars, cardVars, devVars, uncaught>>

pcmToWavCall ==
  /\ output' = [NoOutput EXCEPT !.op = "pcmToWav",
                                !.result = "returned",
                                !.bytes = pcmToWav(input.bytes, input.rate)]
  /\ UNCHANGED <<input, appVars, cardVars, devVars, uncaught>>

\* ------------------------------------------- AudioCard: handleTogglePlayback
\* One click on the play/stop button of the card of artifact c.  init is the
\* state a newly constructed AudioContext reports, throws the engine's
\* answer to stop() on a finished node.
handleTogglePlayback(c, init, throws) ==
  /\ Mounted(c)
  /\ HasPayload(Artifact(c))
  /\ IF isPlaying[c]
     THEN \* lines 28-35
          /\ IF sourceRef[c] # Null
             THEN LET r == TryStop(sources, sourceRef[c], throws)
                  IN /\ sources' = r.sources
                     /\ IF r.thrown
                        THEN /\ uncaught' = uncaught \cup {"handleTogglePlayback"}
                             /\ UNCHANGED <<isPlaying, sourceRef>>
                        ELSE /\ sourceRef' = [sourceRef EXCEPT ![c] = Null]
                             /\ isPlaying' = [isPlaying EXCEPT ![c] = FALSE]
                             /\ UNCHANGED uncaught
             ELSE /\ isPlaying' = [isPlaying EXCEPT ![c] = FALSE]
                  /\ UNCHANGED <<sourceRef, sources, uncaught>>
          /\ UNCHANGED <<resumeQueue, devVars>>
     ELSE \* lines 37-52
          LET g == getAudioContext(sharedAudioCtx, ctxCreated, DefaultSampleRate)
              state == IF g.created > ctxCreated THEN init ELSE ctxState
          IN /\ sharedAudioCtx' = g.shared
             /\ ctxCreated' = g.created
             /\ ctxState' = state
             /\ UNCHANGED uncaught
             /\ IF DecodeFails(Artifact(c).audioData)
                THEN \* catch: setIsPlaying(false)
                     /\ isPlaying' = [isPlaying EXCEPT ![c] = FALSE]
                     /\ UNCHANGED <<sourceRef, sources, resumeQueue>>
                ELSE /\ Cardinality(Live(sources)) + Len(resumeQueue) < MaxSources
                     /\ isPlaying' = [isPlaying EXCEPT ![c] = TRUE]
                     /\ IF AwaitsResume(state)
                        THEN \* suspended at `await ctx.resume()`
                             /\ resumeQueue' = Append(resumeQueue, c)
                             /\ UNCHANGED <<sourceRef, sources>>
                        ELSE \* source.start(); sourceRef.current = source
                             /\ sources' = StartSource(sources, c)
                             /\ sourceRef' = [sourceRef EXCEPT ![c] = FreshSource(sources)]
                             /\ UNCHANGED resumeQueue
  /\ UNCHANGED <<appVars, codecVars>>

\* The continuations of the invocations waiting on ctx.resume(), in the order
\* of their calls: playAudioBuffer lines 45-49, then handleTogglePlayback
\* lines 44-48.
RECURSIVE StartAll(_, _, _)
StartAll(q, srcs, ref) ==
  IF q = <<>>
  THEN [sources |-> srcs, sourceRef |-> ref]
  ELSE StartAll(Tail(q), StartSource(srcs, Head(q)),
                [ref EXCEPT ![Head(q)] = FreshSource(srcs)])

\* The device starts: every pending resume() promise is fulfilled in one task.
ResumeFulfilled ==
  /\ resumeQueue # <<>>
  /\ ctxState' = "running"
  /\ LET r == StartAll(resumeQueue, sources, sourceRef)
     IN /\ sources' = r.sources
        /\ sourceRef' = r.sourceRef
  /\ resumeQueue' = <<>>
  /\ UNCHANGED <<isPlaying, sharedAudioCtx, ctxCreated, uncaught, appVars, codecVars>>

\* The device cannot start: every pending resume() promise is rejected and
\* each invocation runs its catch block, setIsPlaying(false).
ResumeRejected ==
  /\ resumeQueue # <<>>
  /\ isPlaying' = [c \in ArtifactIds |->
                     IF \E i \in 1..Len(resumeQueue) : resumeQueue[i] = c
                     THEN FALSE ELSE isPlaying[c]]
  /\ resumeQueue' = <<>>
  /\ UNCHANGED <<sourceRef, sources, devVars, uncaught, appVars, codecVars>>

\* The buffer of node s has been played to its end: the ended event is queued.
SourceEnds(s) ==
  /\ sources[s].status = "playing"
  /\ ctxState = "running"
  /\ sources' = [sources EXCEPT ![s].status = "ended", ![s].endedQueued = TRUE]
  /\ UNCHANGED <<isPlaying, sourceRef, resumeQueue, devVars, uncaught, appVars, codecVars>>

\* The ended event of node s is dispatched: source.onended, lines 45-48.
\* setIsPlaying on a card that is no longer mounted does nothing.
onendedKeepsState(s) ==
  /\ sources[s].endedQueued
  /\ sources' = [sources EXCEPT ![s] = NoSource]
  /\ UNCHANGED <<isPlaying, sourceRef, resumeQueue, devVars, uncaught, appVars, codecVars>>
onended(s) ==
  /\ sources[s].endedQueued
  /\ sources' = [sources EXCEPT ![s] = NoSource]
  /\ LET c == sources[s].card
     IN /\ isPlaying' = [isPlaying EXCEPT ![c] = FALSE]
        /\ sourceRef' = [sourceRef EXCEPT ![c] = Null]
  /\ UNCHANGED <<resumeQueue, devVars, uncaught, appVars, codecVars>>

\* The platform suspends the running device (power or autoplay policy).
DeviceSuspends ==
  /\ sharedAudioCtx # NoCtx
  /\ ctxState = "running"
  /\ ctxState' = "suspended"
  /\ UNCHANGED <<sharedAudioCtx, ctxCreated, cardVars, uncaught, appVars, codecVars>>

\* A suspended device on which no resume() is pending starts by itself
\* (a context constructed during a user gesture).
DeviceStarts ==
  /\ sharedAudioCtx # NoCtx
  /\ ctxState = "suspended"
  /\ resumeQueue = <<>>
  /\ ctxState' = "running"
  /\ UNCHANGED <<sharedAudioCtx, ctxCreated, cardVars, uncaught, appVars, codecVars>>

\* Any other caller of the exported getAudioContext, with its own sampleRate.
GetAudioContextCall(sampleRate, init) ==
  /\ LET g == getAudioContext(sharedAudioCtx, ctxCreated, sampleRate)
     IN /\ sharedAudioCtx' = g.shared
        /\ ctxCreated' = g.created
        /\ ctxState' = IF g.created > ctxCreated THEN init ELSE ctxState
  /\ UNCHANGED <<cardVars, uncaught, appVars, codecVars>>

\* onDelete(id): setHistory(h => h.filter(x => x.id !== id)); the card of a
\* removed artifact unmounts and its effect cleanup (lines 17-23) runs.
onDelete(id, throws) ==
  /\ id < nextId
  /\ deleted' = deleted \cup {id}
  /\ history' = DeleteUpdate(history, id)
  /\ IF Mounted(id)
     THEN /\ isPlaying' = [isPlaying EXCEPT ![id] = FALSE]
          /\ IF sourceRef[id] # Null
             THEN LET r == TryStop(sources, sourceRef[id], throws)
                  IN /\ sources' = r.sources
                     /\ uncaught' = IF r.thrown THEN uncaught \cup {"cleanup"} ELSE uncaught
             ELSE UNCHANGED <<sources, uncaught>>
     ELSE UNCHANGED <<isPlaying, sources, uncaught>>
  /\ UNCHANGED <<sourceRef, resumeQueue, devVars>>
  /\ UNCHANGED <<form, isLoading, error, requests, nextId, nextRid, origin, now, codecVars>>

\* ---------------------------------------------------------- specifications
Init ==
  /\ form = [singleText |-> "", studioMode |-> "single", params |-> [rate |-> 1],
             selectedLanguage |-> "English"]
  /\ history = <<>>
  /\ isLoading = FALSE
  /\ error = NoError
  /\ requests = <<>>
  /\ nextId = 1
  /\ nextRid = 1
  /\ origin = [id \in ArtifactIds |-> 0]
  /\ now = 0
  /\ deleted = {}
  /\ isPlaying = [c \in ArtifactIds |-> FALSE]
  /\ sourceRef = [c \in ArtifactIds |-> Null]
  /\ sources = [s \in SourceIds |-> NoSource]
  /\ resumeQueue = <<>>
  /\ sharedAudioCtx = NoCtx
  /\ ctxState = "suspended"
  /\ ctxCreated = 0
  /\ uncaught = {}
  /\ input = NoInput
  /\ output = NoOutput

DeviceStates == {"suspended", "running"}

\* The Vault: the form, synthesis requests and deletions.
VaultNext ==
  \/ \E t \in Texts : SetSingleText(t)
  \/ \E m \in StudioModes : SetStudioMode(m)
  \/ \E v \in Rates : updateParam(v)
  \/ Tick
  \/ handleGenerateAudio
  \/ \E i \in 1..MaxInFlight, b \in Responses : SynthesisReturns(i, b)
  \/ \E i \in 1..MaxInFlight : SynthesisFails(i)
  \/ \E id \in ArtifactIds, throws \in BOOLEAN : onDelete(id, throws)

SpecVault == Init /\ [][VaultNext]_vars

\* The Generate button, disabled={isLoading || !singleText.trim() || ...}
ClickGenerate ==
  /\ ~isLoading
  /\ ~IsBlank(form.singleText)
  /\ handleGenerateAudio

\* Playback: cards, sources and the device, over a Vault that grows and
\* shrinks through the buttons of the page.
Next ==
  \/ \E t \in Texts \ {""} : SetSingleText(t)
  \/ ClickGenerate
  \/ \E i \in 1..MaxInFlight, b \in Responses : SynthesisReturns(i, b)
  \/ \E id \in ArtifactIds, throws \in BOOLEAN : onDelete(id, throws)
  \/ \E c \in ArtifactIds, init \in DeviceStates, throws \in BOOLEAN :
        handleTogglePlayback(c, init, throws)
  \/ ResumeFulfilled
  \/ ResumeRejected
  \/ \E s \in SourceIds : SourceEnds(s)
  \/ \E s \in SourceIds : onended(s)
  \/ DeviceSuspends
  \/ DeviceStarts
  \/ \E r \in SampleRates, init \in DeviceStates :
        GetAudioContextCall(r, init)

Spec == Init /\ [][Next]_vars

\* The studio form and the Generate button: the user keeps editing the text,
\* the mode, the knobs and the language while a request is in flight.
FormNext ==
  \/ \E t \in Texts : SetSingleText(t)
  \/ \E m \in StudioModes : SetStudioMode(m)
  \/ \E v \in Rates : updateParam(v)
  \/ \E lang \in Languages : SetSelectedLanguage(lang)
  \/ ClickGenerate
  \/ \E i \in 1..MaxInFlight, b \in Responses : SynthesisReturns(i, b)
  \/ \E i \in 1..MaxInFlight : SynthesisFails(i)

SpecForm == Init /\ [][FormNext]_vars

\* The synthesis requests alone: handleGenerateAudio invoked with any text,
\* each request sent to the service being settled (answered, or failed by an
\* error or the transport's timeout) after a finite time.
Settles ==
  \/ \E i \in 1..MaxInFlight, b \in Responses : SynthesisReturns(i, b)
  \/ \E i \in 1..MaxInFlight : SynthesisFails(i)

LoadingNext ==
  \/ \E t \in Texts : SetSingleText(t)
  \/ \E m \in StudioModes : SetStudioMode(m)
  \/ handleGenerateAudio
  \/ Settles

SpecLoading == Init /\ [][LoadingNext]_vars /\ WF_vars(Settles)

\* Playback on a device that keeps running once it has started: the cards of
\* a full Vault, the audio thread playing every started buffer to its end and
\* the event loop dispatching every queued ended event.
InitPlay ==
  /\ form = [singleText |-> "hello", studioMode |-> "single", params |-> [rate |-> 1],
             selectedLanguage |-> "English"]
  /\ history = [k \in 1..MaxArtifacts |->
                  NewAudio(MaxArtifacts + 1 - k, 0, form, <<"A", "A", "A", "=">>)]
  /\ isLoading = FALSE
  /\ error = NoError
  /\ requests = <<>>
  /\ nextId = MaxArtifacts + 1
  /\ nextRid = MaxArtifacts + 1
  /\ origin = [id \in ArtifactIds |-> id]
  /\ now = 0
  /\ deleted = {}
  /\ isPlaying = [c \in ArtifactIds |-> FALSE]
  /\ sourceRef = [c \in ArtifactIds |-> Null]
  /\ sources = [s \in SourceIds |-> NoSource]
  /\ resumeQueue = <<>>
  /\ sharedAudioCtx = NoCtx
  /\ ctxState = "suspended"
  /\ ctxCreated = 0
  /\ uncaught = {}
  /\ input = NoInput
  /\ output = NoOutput

PlayNext ==
  \/ \E c \in ArtifactIds, init \in DeviceStates, throws \in BOOLEAN :
        handleTogglePlayback(c, init, throws)
  \/ ResumeFulfilled
  \/ ResumeRejected
  \/ \E s \in SourceIds : SourceEnds(s)
  \/ \E s \in SourceIds : onended(s)

SpecPlay ==
  /\ InitPlay
  /\ [][PlayNext]_vars
  /\ \A s \in SourceIds : WF_vars(SourceEnds(s)) /\ WF_vars(onended(s))

\* The codec and the export: the functions applied to a text, a byte buffer
\* and a sample rate, and one card whose artifact carries the text as payload.
TextChars == {"A", "=", "*", " "}
ByteValues == {0, 64, 127, 128, 192, 255}

SeqsUpTo(S, n) == UNION {[1..k -> S] : k \in 0..n}

\* AAAAQADA/38= : the samples 0, 16384, -16384, 32767
ExamplePayload == <<"A", "A", "A", "A", "Q", "A", "D", "A", "/", "3", "8", "=">>

CodecInputs ==
  {[text |-> t, bytes |-> <<>>, rate |-> DefaultSampleRate] :
      t \in SeqsUpTo(TextChars, MaxText) \cup {ExamplePayload}}
  \cup {[text |-> <<>>, bytes |-> b, rate |-> r] :
          b \in SeqsUpTo(ByteValues, MaxBytes), r \in SampleRates}

InitCodec ==
  /\ input \in CodecInputs
  /\ output = NoOutput
  /\ form = [singleText |-> "hello", studioMode |-> "single", params |-> [rate |-> 1],
             selectedLanguage |-> "English"]
  /\ history = <<NewAudio(1, 0, form, input.text)>>
  /\ isLoading = FALSE
  /\ error = NoError
  /\ requests = <<>>
  /\ nextId = 2
  /\ nextRid = 2
  /\ origin = [id \in ArtifactIds |-> IF id = 1 THEN 1 ELSE 0]
  /\ now = 0
  /\ deleted = {}
  /\ isPlaying = [c \in ArtifactIds |-> FALSE]
  /\ sourceRef = [c \in ArtifactIds |-> Null]
  /\ sources = [s \in SourceIds |-> NoSource]
  /\ resumeQueue = <<>>
  /\ sharedAudioCtx = NoCtx
  /\ ctxState = "suspended"
  /\ ctxCreated = 0
  /\ uncaught = {}

CodecNext ==
  \/ decodeBase64Call
  \/ decodeAudioDataCall
  \/ pcmToWavCall
  \/ \E c \in ArtifactIds : handleDownload(c)
  \/ \E c \in ArtifactIds, init \in DeviceStates, throws \in BOOLEAN :
        handleTogglePlayback(c, init, throws)
  \/ ResumeFulfilled
  \/ ResumeRejected
  \/ Tick

SpecCodec == InitCodec /\ [][CodecNext]_vars

\* ------------------------------------------------------------ properties
Playing(c) == {s \in SourceIds : sources[s].card = c /\ sources[s].status = "playing"}

\* C1: for every card, at most one audio source started by that card is
\* playing at any instant.
C1_AtMostOnePlayingPerCard ==
  \A c \in ArtifactIds : Cardinality(Playing(c)) <= 1

\* C2: once an artifact has been removed from the Vault, no audio source
\* belonging to it is playing.
C2_NoAudioAfterRemoval ==
  \A c \in deleted : Playing(c) = {}

\* C3: the completion notification of a handle on which stop() was called
\* before it ended never changes the state of its (still mounted) card.
C3_StoppedHandleNotifiesNothing ==
  [][\A s \in SourceIds :
       (sources[s].status = "stopped" /\ Mounted(sources[s].card) /\ onended(s))
         => /\ isPlaying'[sources[s].card] = isPlaying[sources[s].card]
            /\ sourceRef'[sources[s].card] = sourceRef[sources[s].card]]_vars

\* C4: a stop() on a handle that has already stopped or ended leaves the
\* handle as it was and lets no error escape the handler that called it.
C4_StopIdempotent ==
  [][\A s \in SourceIds :
       (/\ sources[s].status \in {"stopped", "ended"}
        /\ sources'[s] # NoSource
        /\ sources'[s].stopCalls > sources[s].stopCalls)
         => /\ sources'[s].status = sources[s].status
            /\ sources'[s].endedQueued = sources[s].endedQueued
            /\ sources'[s].card = sources[s].card
            /\ uncaught' = uncaught]_vars

\* a handle that ended by itself and on which stop() was called afterwards
C4_Witness ==
  \E s \in SourceIds : sources[s].status = "ended" /\ sources[s].stopCalls >= 1

C6_RemoveIdempotent ==
  \A id \in ArtifactIds :
    DeleteUpdate(DeleteUpdate(history, id), id) = DeleteUpdate(history, id)

\* an id has been removed and another artifact is still in the Vault
C6_Witness ==
  /\ deleted # {}
  /\ history # <<>>

\* the positions of h that hold an artifact other than id, and the k-th of them
Kept(h, id) == {i \in 1..Len(h) : h[i].id # id}
KthKept(h, id, k) ==
  CHOOSE i \in Kept(h, id) : Cardinality({j \in Kept(h, id) : j <= i}) = k

C8_NoLostUpdate ==
  /\ Ids(history) = (1..(nextId - 1)) \ deleted
  /\ Len(history) = Cardinality(Ids(history))

\* artifact 1 was completed and deleted while the request of artifact 2,
\* issued earlier, was in flight or just done
C8_Witness ==
  /\ nextId = 3
  /\ deleted = {1}
  /\ Ids(history) = {2}
  /\ origin[2] < origin[1]

\* C9: at most one AudioContext is ever constructed, and once the shared
\* handle is set no call replaces or reconfigures it.
C9_ContextCreatedOnce ==
  /\ [](ctxCreated <= 1)
  /\ [][sharedAudioCtx # NoCtx => sharedAudioCtx' = sharedAudioCtx]_vars

\* a card plays on the context that an earlier call created with another rate
C9_Witness ==
  /\ sharedAudioCtx # NoCtx
  /\ sharedAudioCtx.sampleRate # DefaultSampleRate
  /\ \E s \in SourceIds : sources[s].status = "playing"

\* C10: a source is only created and started on a running device: either the
\* device was running when play was requested, or the start happens in the
\* step in which the awaited resume completes.
C10_StartOnlyWhenRunning ==
  [][\A s \in SourceIds :
       (sources[s] = NoSource /\ sources'[s] # NoSource)
         => /\ ctxState' = "running"
            /\ \/ ctxState = "running"
               \/ sharedAudioCtx = NoCtx
               \/ resumeQueue # <<>> /\ resumeQueue' = <<>>]_vars

\* a source started by the continuation of a resume: it plays and is held by
\* its card although the card was switched off while the resume was pending
C10_Witness ==
  \E s \in SourceIds :
    /\ sources[s].status = "playing"
    /\ Mounted(sources[s].card)
    /\ sourceRef[sources[s].card] = s
    /\ ~isPlaying[sources[s].card]

InQueue(c) == \E i \in 1..Len(resumeQueue) : resumeQueue[i] = c

\* a play request of the mounted card c fails in this step: its pending
\* resume is rejected, or decoding its payload throws
FailedPlay(c) ==
  /\ Mounted(c)
  /\ \/ ResumeRejected /\ InQueue(c)
     \/ /\ ~isPlaying[c]
        /\ DecodeFails(Artifact(c).audioData)
        /\ \E init \in DeviceStates, throws \in BOOLEAN : handleTogglePlayback(c, init, throws)

\* C11: when a play request fails, no source is started, the card is idle
\* afterwards (isPlaying false, no handle held) and the Vault is unchanged.
C11_FailedPlayLeavesCardIdle ==
  [][\A c \in ArtifactIds :
       FailedPlay(c)
         => /\ sources' = sources
            /\ isPlaying'[c] = FALSE
            /\ sourceRef'[c] = Null
            /\ history' = history]_vars

\* what card d shows and holds, and the nodes it started
CardState(d) ==
  <<isPlaying[d], sourceRef[d],
    {<<s, sources[s]>> : s \in {t \in SourceIds : sources[t].card = d}}>>

\* a step of card c alone: a click on its button, the end of one of its
\* nodes or the dispatch of that node's ended event
CardStep(c) ==
  \/ \E init \in DeviceStates, throws \in BOOLEAN : handleTogglePlayback(c, init, throws)
  \/ \E s \in SourceIds : sources[s].card = c /\ (SourceEnds(s) \/ onended(s))

\* C12: a play, stop, completion or failure of one card leaves the playback
\* state of every other card unchanged; a settled resume touches only the
\* cards that were waiting for it.
C12_CardsIndependent ==
  [][\A d \in ArtifactIds :
       (\/ \E c \in ArtifactIds \ {d} : CardStep(c)
        \/ (ResumeFulfilled \/ ResumeRejected) /\ ~InQueue(d))
         => CardState(d)' = CardState(d)]_vars

\* two different artifacts playing at the same time
C12_Witness ==
  \E c, d \in ArtifactIds :
    /\ c # d
    /\ isPlaying[c] /\ isPlaying[d]
    /\ Playing(c) # {} /\ Playing(d) # {}

\* ------------------------------------------------- properties of the codec
\* a reader of the file, written apart from the encoder: the little-endian
\* number in the n bytes that follow the first offset bytes of b
RECURSIVE ReadLE(_, _, _)
ReadLE(b, offset, n) ==
  IF n = 0 THEN 0 ELSE b[offset + 1] + 256 * ReadLE(b, offset + 1, n - 1)

ReadInt16LE(b, offset) ==
  IF ReadLE(b, offset, 2) >= 32768 THEN ReadLE(b, offset, 2) - 65536 ELSE ReadLE(b, offset, 2)

Drop(b, n) == SubSeq(b, n + 1, Len(b))

\* C13: for every even-length byte buffer B, pcmToWav(B, 24000) is 44 header
\* bytes followed by the bytes of B unmodified: dropping the first 44 bytes
\* returns exactly B.
C13_WavRoundTrip ==
  (/\ output.op = "pcmToWav"
   /\ input.rate = DefaultSampleRate
   /\ Len(input.bytes) % 2 = 0)
    => /\ Len(output.bytes) = 44 + Len(input.bytes)
       /\ Drop(output.bytes, 44) = input.bytes

\* a buffer of one sample whose two bytes differ has been encoded
C13_Witness ==
  /\ output.op = "pcmToWav"
  /\ input.rate = DefaultSampleRate
  /\ Len(input.bytes) = 2
  /\ input.bytes[1] # input.bytes[2]

\* C14: for every payload of length N and every sample rate the container
\* has 44 + N bytes and its header holds RIFF, 36 + N, WAVE, "fmt ", 16,
\* format 1, 1 channel, the sample rate, the byte rate, the block align,
\* 16 bits per sample, "data" and N, every number little-endian.
C14_WavHeaderFields ==
  output.op = "pcmToWav"
    => LET f == output.bytes
           N == Len(input.bytes)
           channelCount == 1
           bitsPerSample == 16
       IN /\ Len(f) = 44 + N
          /\ SubSeq(f, 1, 4) = <<82, 73, 70, 70>>
          /\ ReadLE(f, 4, 4) = 36 + N
          /\ SubSeq(f, 9, 12) = <<87, 65, 86, 69>>
          /\ SubSeq(f, 13, 16) = <<102, 109, 116, 32>>
          /\ ReadLE(f, 16, 4) = 16
          /\ ReadLE(f, 20, 2) = 1
          /\ ReadLE(f, 22, 2) = channelCount
          /\ ReadLE(f, 24, 4) = input.rate
          /\ ReadLE(f, 28, 4) = (input.rate * channelCount * bitsPerSample) \div 8
          /\ ReadLE(f, 32, 2) = (channelCount * bitsPerSample) \div 8
          /\ ReadLE(f, 34, 2) = bitsPerSample
          /\ SubSeq(f, 37, 40) = <<100, 97, 116, 97>>
          /\ ReadLE(f, 40, 4) = N

\* a non-empty payload has been encoded at a rate other than the default
C14_Witness ==
  /\ output.op = "pcmToWav"
  /\ input.rate # DefaultSampleRate
  /\ Len(input.bytes) > 0

\* C15: the file saved by handleDownload is the 44-byte header for 24000 Hz
\* mono 16-bit followed by exactly the base64-decoded bytes of the payload;
\* for the payload of the samples 0, 16384, -16384, 32767 it has 52 bytes
\* and its data chunk reads as those four little-endian int16 numbers.
C15_ExportEndToEnd ==
  output.op = "handleDownload"
    => LET payload == Artifact(1).audioData
           f == output.bytes
       IN /\ (HasPayload(Artifact(1)) /\ decodeBase64(payload).ok)
                => /\ output.result = "saved"
                   /\ SubSeq(f, 1, 44) = WavHeader(Len(f) - 44, DefaultSampleRate)
                   /\ Drop(f, 44) = decodeBase64(payload).bytes
          /\ payload = ExamplePayload
                => /\ output.result = "saved"
                   /\ Len(f) = 52
                   /\ [i \in 1..4 |-> ReadInt16LE(f, 44 + 2 * (i - 1))]
                        = <<0, 16384, -16384, 32767>>

\* the example payload has been exported
C15_Witness ==
  /\ output.op = "handleDownload"
  /\ output.result = "saved"
  /\ Artifact(1).audioData = ExamplePayload

\* C16: decodeAudioData maps every even-length byte buffer to length / 2
\* samples in order, sample i being the signed little-endian 16-bit number
\* in bytes 2i and 2i+1 over 32768 (0x00,0x80 gives -1).
C16_PcmDecoding ==
  (output.op = "decodeAudioData" /\ Len(input.bytes) % 2 = 0)
    => /\ output.result = "returned"
       /\ Len(output.samples) = Len(input.bytes) \div 2
       /\ \A i \in 1..Len(output.samples) :
            output.samples[i] = ReadInt16LE(input.bytes, 2 * (i - 1))
       /\ input.bytes = <<0, 128>> => output.samples = <<-SampleScale>>

\* C17: decodeAudioData rejects every odd-length byte buffer: it fails and
\* returns no samples.
C17_OddLengthRejected ==
  (output.op = "decodeAudioData" /\ Len(input.bytes) % 2 = 1)
    => /\ output.result = "threw"
       /\ output.samples = <<>>

\* t holds a character that is neither of the base64 alphabet nor padding
HasForeignChar(t) == \E i \in 1..Len(t) : ~IsB64(t[i]) /\ t[i] # "="

\* C18: decodeBase64 fails for every input that holds a character outside
\* the base64 alphabet (padding aside), and both callers end in an error
\* outcome: playback starts nothing, export produces no file.
C18_MalformedPayloadFails ==
  /\ (output.op = "decodeBase64" /\ HasForeignChar(input.text))
        => output.result = "threw" /\ output.bytes = <<>>
  /\ (output.op = "handleDownload" /\ HasForeignChar(Artifact(1).audioData))
        => output.result = "threw" /\ output.bytes = <<>>
  /\ HasForeignChar(Artifact(1).audioData)
        => /\ resumeQueue = <<>>
           /\ \A s \in SourceIds : sources[s] = NoSource

\* C19: every artifact in the Vault has a payload that decodes to a whole
\* number of 16-bit samples.
C19_VaultPayloadsDecode ==
  \A i \in 1..Len(history) :
    /\ decodeBase64(history[i].audioData).ok
    /\ Len(decodeBase64(history[i].audioData).bytes) % 2 = 0

\* C20: export of an artifact without a payload returns at once: no file is
\* built or saved, nothing is thrown, and the Vault and the playback state
\* are unchanged.
C20_ExportWithoutPayloadIsNoOp ==
  [][\A c \in ArtifactIds :
       (handleDownload(c) /\ Artifact(c).audioData = <<>>)
         => /\ output'.result = "returned"
            /\ output'.bytes = <<>>
            /\ output'.name = NoName
            /\ uncaught' = uncaught
            /\ history' = history
            /\ cardVars' = cardVars]_vars

\* the download button of an artifact without a payload has been clicked
C20_Witness ==
  /\ output.op = "handleDownload"
  /\ output.result = "returned"
  /\ Artifact(1).audioData = <<>>

\* C21: handleDownload leaves the Vault, the exported artifact and every
\* card's isPlaying flag and held handle unchanged, also during playback, and
\* a repeated export ends the same way with the same bytes.
C21_ExportReadOnlyRepeatable ==
  [][\A c \in ArtifactIds :
       handleDownload(c)
         => /\ history' = history
            /\ cardVars' = cardVars
            /\ output.op = "handleDownload"
                 => /\ output'.result = output.result
                    /\ output'.bytes = output.bytes]_vars

\* a file has been saved while the artifact is playing
C21_Witness ==
  /\ output.op = "handleDownload"
  /\ output.result = "saved"
  /\ isPlaying[1]
  /\ Playing(1) # {}

\* a letter or a digit
IsAlphanumeric(ch) == \E i \in 1..62 : B64Alphabet[i] = ch

\* the label as the specification normalises it: lower-cased, every run of
\* characters that are not letters or digits collapsed to one underscore
RECURSIVE CollapseNonAlphanumeric(_)
CollapseNonAlphanumeric(t) ==
  IF t = <<>> THEN <<>>
  ELSE IF ~IsAlphanumeric(Head(t))
       THEN IF Len(t) >= 2 /\ ~IsAlphanumeric(t[2])
            THEN CollapseNonAlphanumeric(Tail(t))
            ELSE <<"_">> \o CollapseNonAlphanumeric(Tail(t))
       ELSE <<ToLowerCase(Head(t))>> \o CollapseNonAlphanumeric(Tail(t))

\* C22: the suggested file name is sonic_ai_<label>_<millis>.wav, the label
\* being the voice label lower-cased with non-alphanumeric characters
\* collapsed to underscores and millis the artifact's creation timestamp.
C22_FileNameFromArtifact ==
  (output.op = "handleDownload" /\ output.result = "saved")
    => /\ output.name.prefix = "sonic_ai"
       /\ output.name.ext = ".wav"
       /\ \A i \in 1..Len(output.name.label) :
            IsAlphanumeric(output.name.label[i]) \/ output.name.label[i] = "_"
       /\ output.name.label = CollapseNonAlphanumeric(Artifact(1).voiceName)
       /\ output.name.millis = Artifact(1).timestamp

\* the artifact with id c in the history h
ArtifactIn(h, c) == CHOOSE a \in {h[k] : k \in 1..Len(h)} : a.id = c

\* C23: the payload of an artifact is the one the synthesis returned when it
\* was created and no step changes it while the artifact stays in the Vault.
C23_PayloadNeverChanges ==
  [][/\ \A c \in Ids(history) \cap Ids(history') :
          ArtifactIn(history', c).audioData = ArtifactIn(history, c).audioData
     /\ \A i \in 1..MaxInFlight, b \in Responses :
          SynthesisReturns(i, b) => ArtifactIn(history', nextId).audioData = b]_vars

\* two artifacts with different payloads are in the Vault
C23_Witness ==
  /\ Len(history) = 2
  /\ history[1].audioData # history[2].audioData

\* C24: no step changes the params, the voice label or the language stored
\* in an artifact that is in the Vault, whatever the knobs, the mode and the
\* language of the form become.
C24_ParamsAreSnapshot ==
  [][\A c \in Ids(history) \cap Ids(history') :
       /\ ArtifactIn(history', c).params = ArtifactIn(history, c).params
       /\ ArtifactIn(history', c).voiceName = ArtifactIn(history, c).voiceName
       /\ ArtifactIn(history', c).language = ArtifactIn(history, c).language]_vars

\* the form has moved away from what a stored artifact holds
C24_Witness ==
  \E k \in 1..Len(history) :
    /\ history[k].params # form.params
    /\ history[k].language # form.selectedLanguage
    /\ history[k].voiceName # VoiceNameOf(form)

\* C28: the text, voice label, kind, params and language of a new artifact
\* are those of the form when handleGenerateAudio was invoked, whatever the
\* form holds when the synthesis returns.
C28_MetadataIsOfTheRequest ==
  [][\A i \in 1..MaxInFlight, b \in Responses :
       SynthesisReturns(i, b)
         => LET a == ArtifactIn(history', nextId)
                sent == requests[i].form
            IN /\ a.text = DisplayText(sent.singleText)
               /\ a.voiceName = VoiceNameOf(sent)
               /\ a.type = (IF sent.studioMode = "single" THEN "single" ELSE "multi")
               /\ a.params = sent.params
               /\ a.language = sent.selectedLanguage
               /\ a.audioData = b]_vars

\* a request is in flight and the form no longer holds what was sent
C28_Witness ==
  /\ requests # <<>>
  /\ requests[1].form.singleText # form.singleText
  /\ requests[1].form.studioMode # form.studioMode
  /\ requests[1].form.params # form.params
  /\ requests[1].form.selectedLanguage # form.selectedLanguage

\* C25: a failed synthesis request and an invocation with an empty text leave
\* the Vault as it was, a failure sets the error message, and the Vault
\* grows only when a synthesis call returned audio data.
C25_AddedOnlyOnSuccess ==
  [][/\ \A i \in 1..MaxInFlight :
          SynthesisFails(i) => history' = history /\ error' # NoError
     /\ (handleGenerateAudio /\ IsBlank(form.singleText)) => history' = history
     /\ Len(history') > Len(history)
          => \E i \in 1..MaxInFlight, b \in Responses :
               b # NoData /\ SynthesisReturns(i, b)]_vars

\* a request has failed while the Vault holds an artifact
C25_Witness ==
  /\ error # NoError
  /\ Len(history) = 1
  /\ nextRid > 2

\* C26: a card whose isPlaying flag is false has no source playing and no
\* start pending, and a playing source is the one its card holds in sourceRef.
C26_IndicatorMatchesAudio ==
  /\ \A c \in ArtifactIds :
       (Mounted(c) /\ ~isPlaying[c]) => Playing(c) = {} /\ ~InQueue(c)
  /\ \A s \in SourceIds :
       (sources[s].status = "playing" /\ Mounted(sources[s].card))
         => sourceRef[sources[s].card] = s

\* a click on the play button of idle card c starts a node that c holds
StartsFresh(c) ==
  /\ sources'[FreshSource(sources)].status = "playing"
  /\ sources'[FreshSource(sources)].card = c
  /\ sourceRef'[c] = FreshSource(sources)
  /\ isPlaying'[c]

\* C27: a playing source eventually stops playing (its buffer ends unless it
\* is stopped first) and a queued ended event is eventually dispatched; the
\* dispatch leaves the card with isPlaying false and no handle, and the next
\* play click on that card starts a fresh source.
C27_PlaybackEndsAndCardIsIdle ==
  /\ \A s \in SourceIds :
       /\ (sources[s].status = "playing") ~> (sources[s].status # "playing")
       /\ (sources[s].status = "ended") ~> (sources[s] = NoSource)
  /\ [][/\ \A s \in SourceIds :
             onended(s) => /\ isPlaying'[sources[s].card] = FALSE
                           /\ sourceRef'[sources[s].card] = Null
        /\ \A c \in ArtifactIds :
             (/\ ~isPlaying[c]
              /\ sourceRef[c] = Null
              /\ ctxState = "running"
              /\ \E throws \in BOOLEAN : handleTogglePlayback(c, ctxState, throws))
               => StartsFresh(c)]_vars

\* a buffer has been played to its end and its ended event is queued
C27_Witness ==
  \E s \in SourceIds :
    /\ sources[s].status = "ended"
    /\ sources[s].endedQueued
    /\ isPlaying[sources[s].card]
    /\ sourceRef[sources[s].card] = s

\* C29: every artifact in the Vault has a non-empty payload, so the
\* no-payload returns of play and export are never taken for it.
C29_VaultPayloadsPresent ==
  \A k \in 1..Len(history) : history[k].audioData # <<>>

\* the Vault holds an artifact and a later request has failed
C29_Witness ==
  /\ Len(history) >= 1
  /\ history[1].audioData # <<>>
  /\ error # NoError
  /\ requests = <<>>

\* C30: an invocation with a text sets isLoading, every settled request and
\* the early return on an empty text clear it, the flag is never set with no
\* request in flight, and a set flag is eventually cleared.
C30_LoadingFlagClears ==
  /\ isLoading ~> ~isLoading
  /\ [](isLoading => requests # <<>>)
  /\ [][/\ Settles => isLoading' = FALSE
        /\ handleGenerateAudio => isLoading' = ~IsBlank(form.singleText)]_vars

\* every request has settled and the flag is clear
C30_Witness ==
  /\ ~isLoading
  /\ requests = <<>>
  /\ nextRid > MaxInFlight
  /\ error # NoError

====
